---- MODULE Spec2Model ----
(***************************************************************************)
(* Model of internal/config/ssh.go: the SSH config store.                  *)
(*                                                                         *)
(* A string is a sequence of letters.  A letter is either one character    *)
(* (" ", "\t", "#", ",", "a", ...) or a fixed word that is never split     *)
(* ("Host", "HostName", "Tags:", "22", ...); no word of the alphabet is a  *)
(* concatenation of other letters, so a sequence of letters stands for     *)
(* exactly one Go string.  A file is its content split at "\n"             *)
(* (strings.Split), hence a non-empty sequence of lines: the empty file is *)
(* << <<>> >>, and a file ending in "\n" has an empty last line.  The      *)
(* empty sequence stands for a file that does not exist.                   *)
(***************************************************************************)
EXTENDS Integers, Sequences, FiniteSets, TLC

VARIABLES configFile, backupFile, configMutex, pc, op, pre, res, todo,
          listed, calls

\* configFile   ~/.ssh/config (configPath, ssh.go:163), as its lines
\* backupFile   configPath + ".backup" (ssh.go:29), as its lines
\* configMutex  TRUE while the sync.Mutex of ssh.go:25 is locked
\* pc[p]        where caller p stands: "idle", "lock" (in configMutex.Lock),
\*              "backup", "body", "write" (inside a handler), "ret" (the
\*              handler has its result and has yet to unlock), "off" (a
\*              caller that makes no call)
\* op[p]        the handler p runs and its arguments
\* pre[p]       the content of configFile when p acquired the lock
\* res[p]       the error the handler returns ("ok" for nil)
\* todo[p]      AddSSHHost: the strings still to be written
\* listed       the last result of ParseSSHConfig by a reader
\* calls        the number of calls the callers may still make
vars == <<configFile, backupFile, configMutex, pc, op, pre, res, todo,
          listed, calls>>

\* ------------------------------------------------------------------ bounds
NProcs == 2
MaxCalls == 2
MaxLines == 3

Procs == 1..NProcs

\* ----------------------------------------------------------------- strings
Space == {" ", "\t"}

Min(S) == CHOOSE x \in S : \A y \in S : x <= y
Max(S) == CHOOSE x \in S : \A y \in S : x >= y

TrimSpace(s) ==
    LET idx == {i \in 1..Len(s) : s[i] \notin Space}
    IN  IF idx = {} THEN <<>> ELSE SubSeq(s, Min(idx), Max(idx))

HasPrefix(s, p) == Len(s) >= Len(p) /\ SubSeq(s, 1, Len(p)) = p

TrimPrefix(s, p) == IF HasPrefix(s, p) THEN SubSeq(s, Len(p) + 1, Len(s)) ELSE s

RECURSIVE FieldsAcc(_, _, _)
FieldsAcc(s, cur, acc) ==
    IF s = <<>> THEN (IF cur = <<>> THEN acc ELSE Append(acc, cur))
    ELSE IF Head(s) \in Space
         THEN FieldsAcc(Tail(s), <<>>, IF cur = <<>> THEN acc ELSE Append(acc, cur))
         ELSE FieldsAcc(Tail(s), Append(cur, Head(s)), acc)

Fields(s) == FieldsAcc(s, <<>>, <<>>)

RECURSIVE SplitAcc(_, _, _, _)
SplitAcc(s, sep, cur, acc) ==
    IF s = <<>> THEN Append(acc, cur)
    ELSE IF Head(s) = sep
         THEN SplitAcc(Tail(s), sep, <<>>, Append(acc, cur))
         ELSE SplitAcc(Tail(s), sep, Append(cur, Head(s)), acc)

Split(s, sep) == SplitAcc(s, sep, <<>>, <<>>)

RECURSIVE Join(_, _)
Join(parts, sep) ==
    IF parts = <<>> THEN <<>>
    ELSE IF Len(parts) = 1 THEN parts[1]
    ELSE parts[1] \o sep \o Join(Tail(parts), sep)

LowerLetter(c) ==
    CASE c = "Host" -> "host"
      [] c = "HostName" -> "hostname"
      [] c = "User" -> "user"
      [] c = "Port" -> "port"
      [] c = "IdentityFile" -> "identityfile"
      [] c = "ProxyJump" -> "proxyjump"
      [] c = "ForwardAgent" -> "forwardagent"
      [] c = "Tags:" -> "tags:"
      [] OTHER -> c

ToLower(s) == IF s = <<>> THEN <<>> ELSE [i \in 1..Len(s) |-> LowerLetter(s[i])]

TagsPrefix == <<"#", " ", "Tags:">>
HostPrefix == <<"Host", " ">>
Indent == <<" ", " ", " ", " ">>

\* ------------------------------------------------------------------- files
NoFile == <<>>

\* The content written by a WriteString / WriteFile of the string whose
\* Split at "\n" is pieces, after content whose Split is lines.
AppendStr(lines, pieces) ==
    SubSeq(lines, 1, Len(lines) - 1)
        \o <<lines[Len(lines)] \o pieces[1]>>
        \o Tail(pieces)

\* strings.Join(newLines, "\n") written out and split again: no lines at
\* all is the empty content, whose Split is one empty line.
JoinLines(newLines) == IF newLines = <<>> THEN << <<>> >> ELSE newLines

\* ------------------------------------------------------------------ parser
SSHHost(name, hostname, user, port, identity, proxyJump, tags) ==
    [Name |-> name, Hostname |-> hostname, User |-> user, Port |-> port,
     Identity |-> identity, ProxyJump |-> proxyJump, Tags |-> tags]

RECURSIVE TagsOf(_)
TagsOf(pieces) ==
    IF pieces = <<>> THEN <<>>
    ELSE LET tag == TrimSpace(Head(pieces))
         IN  (IF tag # <<>> THEN <<tag>> ELSE <<>>) \o TagsOf(Tail(pieces))

\* The labels a "# Tags:" line (trimmed) adds to pendingTags.
ParseTags(line) ==
    LET tagsStr == TrimSpace(TrimPrefix(line, TagsPrefix))
    IN  IF tagsStr # <<>> THEN TagsOf(Split(tagsStr, ",")) ELSE <<>>

\* ParseDirective with pendingTags left as it is at a Host line.
ParseDirectiveKeepTags(st, key, value) ==
    LET cur == st.currentHost
        set(f) == IF cur # <<>>
                  THEN [st EXCEPT !.currentHost = <<[cur[1] EXCEPT ![f] = value]>>]
                  ELSE st
    IN  CASE key = <<"host">> ->
               [hosts |-> st.hosts \o cur,
                currentHost |-> <<SSHHost(value, <<>>, <<>>, <<"22">>, <<>>, <<>>,
                                          st.pendingTags)>>,
                pendingTags |-> st.pendingTags]
          [] key = <<"hostname">> -> set("Hostname")
          [] key = <<"user">> -> set("User")
          [] key = <<"port">> -> set("Port")
          [] key = <<"identityfile">> -> set("Identity")
          [] key = <<"proxyjump">> -> set("ProxyJump")
          [] OTHER -> st

\* One directive applied to the parser state; currentHost is <<>> (nil) or
\* a one-element sequence.
ParseDirective(st, key, value) ==
    LET cur == st.currentHost
        set(f) == IF cur # <<>>
                  THEN [st EXCEPT !.currentHost = <<[cur[1] EXCEPT ![f] = value]>>]
                  ELSE st
    IN  CASE key = <<"host">> ->
               [hosts |-> st.hosts \o cur,
                currentHost |-> <<SSHHost(value, <<>>, <<>>, <<"22">>, <<>>, <<>>,
                                          st.pendingTags)>>,
                pendingTags |-> <<>>]
          [] key = <<"hostname">> -> set("Hostname")
          [] key = <<"user">> -> set("User")
          [] key = <<"port">> -> set("Port")
          [] key = <<"identityfile">> -> set("Identity")
          [] key = <<"proxyjump">> -> set("ProxyJump")
          [] OTHER -> st

\* The body of the scanner loop for one line.
ParseLine(st, raw) ==
    LET line == TrimSpace(raw)
        parts == Fields(line)
    IN  IF line = <<>> THEN st
        ELSE IF HasPrefix(line, TagsPrefix)
        THEN [st EXCEPT !.pendingTags = st.pendingTags \o ParseTags(line)]
        ELSE IF HasPrefix(line, <<"#">>) THEN st
        ELSE IF Len(parts) < 2 THEN st
        ELSE ParseDirective(st, ToLower(parts[1]), Join(Tail(parts), <<" ">>))

RECURSIVE ParseFrom(_, _)
ParseFrom(st, lines) ==
    IF lines = <<>> THEN st ELSE ParseFrom(ParseLine(st, Head(lines)), Tail(lines))

\* ParseSSHConfigFile without the append of the host still open at the end
\* of the input.
ParseSSHConfigFileNoLast(lines) ==
    LET st == ParseFrom([hosts |-> <<>>, currentHost |-> <<>>, pendingTags |-> <<>>],
                        lines)
    IN  st.hosts

\* ParseSSHConfigFile on a file that opens: the hosts in order.
ParseSSHConfigFile(lines) ==
    LET st == ParseFrom([hosts |-> <<>>, currentHost |-> <<>>, pendingTags |-> <<>>],
                        lines)
    IN  st.hosts \o st.currentHost

Names(hosts) == [i \in DOMAIN hosts |-> hosts[i].Name]

\* HostExists on a file that opens.
HostExists(lines, hostName) ==
    LET hosts == ParseSSHConfigFile(lines)
    IN  \E i \in DOMAIN hosts : hosts[i].Name = hostName

\* ---------------------------------------------------------------- mutators
TagsLine(tags) == <<"#", " ", "Tags:", " ">> \o Join(tags, <<",", " ">>)

\* AddChunks with the Port line written whenever the port is not empty.
AddChunksAnyPort(host) ==
    << << <<>>, <<>> >> >>
    \o (IF Len(host.Tags) > 0 THEN << <<TagsLine(host.Tags), <<>>>> >> ELSE <<>>)
    \o << <<HostPrefix \o host.Name, <<>>>> >>
    \o << <<Indent \o <<"HostName", " ">> \o host.Hostname, <<>>>> >>
    \o (IF host.User # <<>>
        THEN << <<Indent \o <<"User", " ">> \o host.User, <<>>>> >> ELSE <<>>)
    \o (IF host.Port # <<>>
        THEN << <<Indent \o <<"Port", " ">> \o host.Port, <<>>>> >> ELSE <<>>)
    \o (IF host.Identity # <<>>
        THEN << <<Indent \o <<"IdentityFile", " ">> \o host.Identity, <<>>>> >> ELSE <<>>)
    \o (IF host.ProxyJump # <<>>
        THEN << <<Indent \o <<"ProxyJump", " ">> \o host.ProxyJump, <<>>>> >> ELSE <<>>)

\* The strings AddSSHHost writes, one per WriteString, each as its Split at
\* "\n" (every one ends in "\n", so its last piece is empty).
AddChunks(host) ==
    << << <<>>, <<>> >> >>
    \o (IF Len(host.Tags) > 0 THEN << <<TagsLine(host.Tags), <<>>>> >> ELSE <<>>)
    \o << <<HostPrefix \o host.Name, <<>>>> >>
    \o << <<Indent \o <<"HostName", " ">> \o host.Hostname, <<>>>> >>
    \o (IF host.User # <<>>
        THEN << <<Indent \o <<"User", " ">> \o host.User, <<>>>> >> ELSE <<>>)
    \o (IF host.Port # <<>> /\ host.Port # <<"22">>
        THEN << <<Indent \o <<"Port", " ">> \o host.Port, <<>>>> >> ELSE <<>>)
    \o (IF host.Identity # <<>>
        THEN << <<Indent \o <<"IdentityFile", " ">> \o host.Identity, <<>>>> >> ELSE <<>>)
    \o (IF host.ProxyJump # <<>>
        THEN << <<Indent \o <<"ProxyJump", " ">> \o host.ProxyJump, <<>>>> >> ELSE <<>>)

\* UpdateBlock with the ProxyJump line AddSSHHost writes.
UpdateBlockWithProxyJump(newHost) ==
    << <<>> >>
    \o (IF Len(newHost.Tags) > 0 THEN <<TagsLine(newHost.Tags)>> ELSE <<>>)
    \o <<HostPrefix \o newHost.Name>>
    \o <<Indent \o <<"HostName", " ">> \o newHost.Hostname>>
    \o (IF newHost.User # <<>> THEN <<Indent \o <<"User", " ">> \o newHost.User>> ELSE <<>>)
    \o (IF newHost.Port # <<>> /\ newHost.Port # <<"22">>
        THEN <<Indent \o <<"Port", " ">> \o newHost.Port>> ELSE <<>>)
    \o (IF newHost.Identity # <<>>
        THEN <<Indent \o <<"IdentityFile", " ">> \o newHost.Identity>> ELSE <<>>)
    \o (IF newHost.ProxyJump # <<>>
        THEN <<Indent \o <<"ProxyJump", " ">> \o newHost.ProxyJump>> ELSE <<>>)

\* The lines UpdateSSHHost inserts in place of the old block.
UpdateBlock(newHost) ==
    << <<>> >>
    \o (IF Len(newHost.Tags) > 0 THEN <<TagsLine(newHost.Tags)>> ELSE <<>>)
    \o <<HostPrefix \o newHost.Name>>
    \o <<Indent \o <<"HostName", " ">> \o newHost.Hostname>>
    \o (IF newHost.User # <<>> THEN <<Indent \o <<"User", " ">> \o newHost.User>> ELSE <<>>)
    \o (IF newHost.Port # <<>> /\ newHost.Port # <<"22">>
        THEN <<Indent \o <<"Port", " ">> \o newHost.Port>> ELSE <<>>)
    \o (IF newHost.Identity # <<>>
        THEN <<Indent \o <<"IdentityFile", " ">> \o newHost.Identity>> ELSE <<>>)

\* The inner loop of update and delete: the first index from i on that is
\* past the end, blank, or a line starting with "Host ".
RECURSIVE SkipBlock(_, _)
SkipBlock(lines, i) ==
    IF i <= Len(lines) /\ TrimSpace(lines[i]) # <<>>
       /\ ~HasPrefix(TrimSpace(lines[i]), HostPrefix)
    THEN SkipBlock(lines, i + 1)
    ELSE i

\* The first test of the loop: a tags comment directly followed by the
\* exact line "Host <name>".
TaggedMatch(lines, i, hostName) ==
    /\ HasPrefix(TrimSpace(lines[i]), TagsPrefix)
    /\ i + 1 <= Len(lines)
    /\ TrimSpace(lines[i + 1]) = HostPrefix \o hostName

\* The second test: a line starting with "Host " whose second field is the
\* name.
BareMatch(lines, i, hostName) ==
    /\ HasPrefix(TrimSpace(lines[i]), HostPrefix)
    /\ Fields(TrimSpace(lines[i]))[2] = hostName

RECURSIVE UpdateLoop(_, _, _, _, _, _)
UpdateLoop(lines, i, newLines, hostFound, oldName, newHost) ==
    IF i > Len(lines) THEN [hostFound |-> hostFound, newLines |-> newLines]
    ELSE IF TaggedMatch(lines, i, oldName)
    THEN UpdateLoop(lines, SkipBlock(lines, i + 2), newLines \o UpdateBlock(newHost),
                    TRUE, oldName, newHost)
    ELSE IF BareMatch(lines, i, oldName)
    THEN UpdateLoop(lines, SkipBlock(lines, i + 1), newLines \o UpdateBlock(newHost),
                    TRUE, oldName, newHost)
    ELSE UpdateLoop(lines, i + 1, Append(newLines, lines[i]), hostFound,
                    oldName, newHost)

\* UpdateSSHHost from the lines read to what it would write.
UpdateLines(lines, oldName, newHost) ==
    UpdateLoop(lines, 1, <<>>, FALSE, oldName, newHost)

\* "Skip the empty line after the host block if it exists".
SkipBlank(lines, i) ==
    IF i <= Len(lines) /\ TrimSpace(lines[i]) = <<>> THEN i + 1 ELSE i

\* DeleteLoop keeping the trimmed line instead of the line as read.
RECURSIVE DeleteLoopTrimmed(_, _, _, _, _)
DeleteLoopTrimmed(lines, i, newLines, hostFound, hostName) ==
    IF i > Len(lines) THEN [hostFound |-> hostFound, newLines |-> newLines]
    ELSE IF TaggedMatch(lines, i, hostName)
    THEN DeleteLoopTrimmed(lines, SkipBlank(lines, SkipBlock(lines, i + 2)), newLines,
                           TRUE, hostName)
    ELSE IF BareMatch(lines, i, hostName)
    THEN DeleteLoopTrimmed(lines, SkipBlank(lines, SkipBlock(lines, i + 1)), newLines,
                           TRUE, hostName)
    ELSE DeleteLoopTrimmed(lines, i + 1, Append(newLines, TrimSpace(lines[i])),
                           hostFound, hostName)

RECURSIVE DeleteLoop(_, _, _, _, _)
DeleteLoop(lines, i, newLines, hostFound, hostName) ==
    IF i > Len(lines) THEN [hostFound |-> hostFound, newLines |-> newLines]
    ELSE IF TaggedMatch(lines, i, hostName)
    THEN DeleteLoop(lines, SkipBlank(lines, SkipBlock(lines, i + 2)), newLines,
                    TRUE, hostName)
    ELSE IF BareMatch(lines, i, hostName)
    THEN DeleteLoop(lines, SkipBlank(lines, SkipBlock(lines, i + 1)), newLines,
                    TRUE, hostName)
    ELSE DeleteLoop(lines, i + 1, Append(newLines, lines[i]), hostFound, hostName)

\* DeleteSSHHost from the lines read to what it would write.
DeleteLines(lines, hostName) == DeleteLoop(lines, 1, <<>>, FALSE, hostName)

\* ------------------------------------------------------------------ inputs
NullHost == SSHHost(<<>>, <<>>, <<>>, <<>>, <<>>, <<>>, <<>>)

\* The entries callers pass to AddSSHHost and UpdateSSHHost.
Entries ==
    { SSHHost(<<"a">>, <<"h">>, <<>>, <<>>, <<>>, <<>>, <<>>),
      SSHHost(<<"b">>, <<"h">>, <<"u">>, <<"22">>, <<>>, <<"j">>, << <<"t1">> >>),
      SSHHost(<<"c">>, <<"h">>, <<>>, <<"80">>, <<"k">>, <<>>,
              << <<"t1">>, <<"t2">> >>) }

\* The names callers look up: those a listing of the file shows, and two
\* fixed ones.
LookupNames(file) ==
    {<<"a">>, <<"b">>}
        \cup (IF file = NoFile THEN {}
              ELSE LET hosts == ParseSSHConfigFile(file)
                   IN  {hosts[i].Name : i \in DOMAIN hosts})

\* Files as this program writes them: blocks of AddSSHHost after a header.
InitFiles ==
    { NoFile,
      << <<>> >>,
      << <<"Host", " ", "a">>, Indent \o <<"HostName", " ", "h">>, <<>> >>,
      << <<"#", " ", "x">>, <<>>,
         <<"#", " ", "Tags:", " ", "t1">>, <<"Host", " ", "a">>,
         Indent \o <<"HostName", " ", "h">>, <<>>,
         <<"Host", " ", "b">>, Indent \o <<"HostName", " ", "h">>,
         Indent \o <<"Port", " ", "80">>, <<>> >>,
      << <<"Host", " ", "b">>, Indent \o <<"HostName", " ", "h">>,
         Indent \o <<"ProxyJump", " ", "j">> >>,
      << <<>>,
         <<"Host", " ", "a">>, Indent \o <<"HostName", " ", "h">>, <<>>,
         <<"#", " ", "Tags:", " ", "t2">>, <<"Host", " ", "b">>,
         Indent \o <<"HostName", " ", "h">>, Indent \o <<"User", " ", "u">>, <<>>,
         <<"Host", " ", "c">>, Indent \o <<"HostName", " ", "h">>, <<>> >> }

\* The files of the runs that are checked for progress.
LiveFiles ==
    { NoFile,
      << <<"Host", " ", "a">>, Indent \o <<"HostName", " ", "h">>, <<>> >> }

\* The lines of hand-edited files.
WideLines ==
    { <<>>,
      <<"#", " ", "x">>,
      <<"#", " ", "Tags:", " ", "t1", ",", ",", " ", "t2", " ">>,
      <<"Host", " ", "a">>,
      <<"Host", " ", "b">>,
      <<"host", "\t", "a">>,
      <<"Host", " ", "a", " ", " ", "b">>,
      <<"Host">>,
      Indent \o <<"HostName", " ", "h">>,
      <<"port", " ", "80">> }

WideFiles == {NoFile} \cup UNION {[1..n -> WideLines] : n \in 1..MaxLines}

\* The hand-edited files on which one caller makes several calls in a row.
TripFiles == {NoFile} \cup UNION {[1..n -> WideLines] : n \in 1..(MaxLines - 2)}

\* ----------------------------------------------------------------- actions
NoOp == [kind |-> "none", name |-> <<>>, host |-> NullHost]

Return(p, r) ==
    /\ pc' = [pc EXCEPT ![p] = "ret"]
    /\ res' = [res EXCEPT ![p] = r]

\* A caller enters AddSSHHost, UpdateSSHHost or DeleteSSHHost and reaches
\* configMutex.Lock().  The arguments play no part until the lock is held,
\* so they are drawn there.
Call(p) ==
    /\ pc[p] = "idle"
    /\ calls > 0
    /\ calls' = calls - 1
    /\ pc' = [pc EXCEPT ![p] = "lock"]
    /\ UNCHANGED <<configFile, backupFile, configMutex, op, pre, res, todo, listed>>

\* Lock that does not wait for the mutex to be free.
LockNoWait(p) ==
    /\ pc[p] = "lock"
    /\ configMutex' = TRUE
    /\ \/ \E h \in Entries :
            op' = [op EXCEPT ![p] = [kind |-> "add", name |-> h.Name, host |-> h]]
       \/ \E n \in LookupNames(configFile), h \in Entries :
            op' = [op EXCEPT ![p] = [kind |-> "update", name |-> n, host |-> h]]
       \/ \E n \in LookupNames(configFile) :
            op' = [op EXCEPT ![p] = [kind |-> "delete", name |-> n, host |-> NullHost]]
    /\ pc' = [pc EXCEPT ![p] = "backup"]
    /\ pre' = [pre EXCEPT ![p] = configFile]
    /\ UNCHANGED <<configFile, backupFile, res, todo, listed, calls>>

\* configMutex.Lock() returns: the lock was free and is now held.
Lock(p) ==
    /\ pc[p] = "lock"
    /\ ~configMutex
    /\ configMutex' = TRUE
    /\ \/ \E h \in Entries :
            op' = [op EXCEPT ![p] = [kind |-> "add", name |-> h.Name, host |-> h]]
       \/ \E n \in LookupNames(configFile), h \in Entries :
            op' = [op EXCEPT ![p] = [kind |-> "update", name |-> n, host |-> h]]
       \/ \E n \in LookupNames(configFile) :
            op' = [op EXCEPT ![p] = [kind |-> "delete", name |-> n, host |-> NullHost]]
    /\ pc' = [pc EXCEPT ![p] = "backup"]
    /\ pre' = [pre EXCEPT ![p] = configFile]
    /\ UNCHANGED <<configFile, backupFile, res, todo, listed, calls>>

\* Backup that keeps an existing backup file instead of overwriting it.
BackupKeepsOld(p) ==
    /\ pc[p] = "backup"
    /\ \/ /\ op[p].kind = "add"
          /\ configFile = NoFile
          /\ pc' = [pc EXCEPT ![p] = "body"]
          /\ UNCHANGED <<backupFile, res>>
       \/ /\ op[p].kind # "add"
          /\ configFile = NoFile
          /\ Return(p, "BackupError")
          /\ UNCHANGED backupFile
       \/ /\ configFile # NoFile
          /\ backupFile' = IF backupFile = NoFile THEN configFile ELSE backupFile
          /\ pc' = [pc EXCEPT ![p] = "body"]
          /\ UNCHANGED res
       \/ /\ configFile # NoFile
          /\ \/ UNCHANGED backupFile
             \/ backupFile' = << <<>> >>
          /\ Return(p, "BackupError")
    /\ UNCHANGED <<configFile, configMutex, op, pre, todo, listed, calls>>

\* Backup whose caller goes on after a failed backupConfig.
BackupErrorIgnored(p) ==
    /\ pc[p] = "backup"
    /\ \/ /\ op[p].kind = "add"
          /\ configFile = NoFile
          /\ pc' = [pc EXCEPT ![p] = "body"]
          /\ UNCHANGED <<backupFile, res>>
       \/ /\ op[p].kind # "add"
          /\ configFile = NoFile
          /\ Return(p, "BackupError")
          /\ UNCHANGED backupFile
       \/ /\ configFile # NoFile
          /\ backupFile' = configFile
          /\ pc' = [pc EXCEPT ![p] = "body"]
          /\ UNCHANGED res
       \/ /\ configFile # NoFile
          /\ \/ UNCHANGED backupFile
             \/ backupFile' = << <<>> >>
          /\ pc' = [pc EXCEPT ![p] = "body"]
          /\ UNCHANGED res
    /\ UNCHANGED <<configFile, configMutex, op, pre, todo, listed, calls>>

\* backupConfig, and in AddSSHHost the os.Stat that guards it.
Backup(p) ==
    /\ pc[p] = "backup"
    /\ \/ /\ op[p].kind = "add"
          /\ configFile = NoFile
          /\ pc' = [pc EXCEPT ![p] = "body"]
          /\ UNCHANGED <<backupFile, res>>
       \/ /\ op[p].kind # "add"
          /\ configFile = NoFile
          /\ Return(p, "BackupError")
          /\ UNCHANGED backupFile
       \/ /\ configFile # NoFile
          /\ backupFile' = configFile
          /\ pc' = [pc EXCEPT ![p] = "body"]
          /\ UNCHANGED res
       \/ /\ configFile # NoFile
          /\ \/ UNCHANGED backupFile
             \/ backupFile' = << <<>> >>
          /\ Return(p, "BackupError")
    /\ UNCHANGED <<configFile, configMutex, op, pre, todo, listed, calls>>

\* AddCheck without the test of HostExists's answer.
AddCheckNoTest(p) ==
    /\ pc[p] = "body"
    /\ op[p].kind = "add"
    /\ configFile # NoFile
    /\ todo' = [todo EXCEPT ![p] = AddChunks(op[p].host)]
    /\ pc' = [pc EXCEPT ![p] = "write"]
    /\ UNCHANGED <<configFile, backupFile, configMutex, op, pre, res, listed, calls>>

\* AddCheck whose HostExists takes a missing file for a file without
\* hosts: the os.OpenFile with O_CREATE is reached and creates the file.
AddCheckCreates(p) ==
    /\ pc[p] = "body"
    /\ op[p].kind = "add"
    /\ \/ /\ configFile = NoFile
          /\ configFile' = << <<>> >>
          /\ todo' = [todo EXCEPT ![p] = AddChunks(op[p].host)]
          /\ pc' = [pc EXCEPT ![p] = "write"]
          /\ UNCHANGED res
       \/ /\ configFile # NoFile
          /\ Return(p, "IOError")
          /\ UNCHANGED <<configFile, todo>>
       \/ /\ configFile # NoFile
          /\ HostExists(configFile, op[p].host.Name)
          /\ Return(p, "AlreadyExists")
          /\ UNCHANGED <<configFile, todo>>
       \/ /\ configFile # NoFile
          /\ ~HostExists(configFile, op[p].host.Name)
          /\ todo' = [todo EXCEPT ![p] = AddChunks(op[p].host)]
          /\ pc' = [pc EXCEPT ![p] = "write"]
          /\ UNCHANGED <<configFile, res>>
    /\ UNCHANGED <<backupFile, configMutex, op, pre, listed, calls>>

\* AddSSHHost from HostExists to the os.OpenFile for appending.
AddCheck(p) ==
    /\ pc[p] = "body"
    /\ op[p].kind = "add"
    /\ \/ /\ configFile = NoFile
          /\ Return(p, "IOError")
          /\ UNCHANGED todo
       \/ /\ configFile # NoFile
          /\ Return(p, "IOError")
          /\ UNCHANGED todo
       \/ /\ configFile # NoFile
          /\ HostExists(configFile, op[p].host.Name)
          /\ Return(p, "AlreadyExists")
          /\ UNCHANGED todo
       \/ /\ configFile # NoFile
          /\ ~HostExists(configFile, op[p].host.Name)
          /\ todo' = [todo EXCEPT ![p] = AddChunks(op[p].host)]
          /\ pc' = [pc EXCEPT ![p] = "write"]
          /\ UNCHANGED res
    /\ UNCHANGED <<configFile, backupFile, configMutex, op, pre, listed, calls>>

\* AddWrite on a file opened without O_APPEND: the string is written at
\* the front of the content.
AddWriteAtFront(p) ==
    /\ pc[p] = "write"
    /\ \/ /\ configFile' = AppendStr(Head(todo[p]), configFile)
          /\ todo' = [todo EXCEPT ![p] = Tail(todo[p])]
          /\ IF Len(todo[p]) = 1
             THEN Return(p, "ok")
             ELSE UNCHANGED <<pc, res>>
       \/ /\ Return(p, "IOError")
          /\ todo' = [todo EXCEPT ![p] = <<>>]
          /\ UNCHANGED configFile
    /\ UNCHANGED <<backupFile, configMutex, op, pre, listed, calls>>

\* One file.WriteString of AddSSHHost.
AddWrite(p) ==
    /\ pc[p] = "write"
    /\ \/ /\ configFile' = AppendStr(configFile, Head(todo[p]))
          /\ todo' = [todo EXCEPT ![p] = Tail(todo[p])]
          /\ IF Len(todo[p]) = 1
             THEN Return(p, "ok")
             ELSE UNCHANGED <<pc, res>>
       \/ /\ Return(p, "IOError")
          /\ todo' = [todo EXCEPT ![p] = <<>>]
          /\ UNCHANGED configFile
    /\ UNCHANGED <<backupFile, configMutex, op, pre, listed, calls>>

\* What UpdateSSHHost or DeleteSSHHost computes from the lines it read.
Rewritten(p) ==
    IF op[p].kind = "update"
    THEN UpdateLines(configFile, op[p].name, op[p].host)
    ELSE DeleteLines(configFile, op[p].name)

\* Rewrite that writes the lines back whether or not a host was found.
RewriteAlways(p) ==
    /\ pc[p] = "body"
    /\ op[p].kind \in {"update", "delete"}
    /\ \/ /\ Return(p, "IOError")
          /\ UNCHANGED configFile
       \/ /\ configFile' = JoinLines(Rewritten(p).newLines)
          /\ Return(p, "ok")
       \/ /\ \/ UNCHANGED configFile
             \/ configFile' = << <<>> >>
          /\ Return(p, "IOError")
    /\ UNCHANGED <<backupFile, configMutex, op, pre, todo, listed, calls>>

\* UpdateSSHHost and DeleteSSHHost from os.ReadFile to os.WriteFile.
Rewrite(p) ==
    /\ pc[p] = "body"
    /\ op[p].kind \in {"update", "delete"}
    /\ \/ /\ Return(p, "IOError")
          /\ UNCHANGED configFile
       \/ /\ ~Rewritten(p).hostFound
          /\ Return(p, "NotFound")
          /\ UNCHANGED configFile
       \/ /\ Rewritten(p).hostFound
          /\ configFile' = JoinLines(Rewritten(p).newLines)
          /\ Return(p, "ok")
       \/ /\ Rewritten(p).hostFound
          /\ \/ UNCHANGED configFile
             \/ configFile' = << <<>> >>
          /\ Return(p, "IOError")
    /\ UNCHANGED <<backupFile, configMutex, op, pre, todo, listed, calls>>

\* Unlock that returns to the caller with configMutex still locked.
UnlockSkipped(p) ==
    /\ pc[p] = "ret"
    /\ pc' = [pc EXCEPT ![p] = "idle"]
    /\ op' = [op EXCEPT ![p] = NoOp]
    /\ pre' = [pre EXCEPT ![p] = NoFile]
    /\ res' = [res EXCEPT ![p] = "none"]
    /\ UNCHANGED <<configFile, backupFile, configMutex, todo, listed, calls>>

\* The deferred configMutex.Unlock() and the return to the caller.
Unlock(p) ==
    /\ pc[p] = "ret"
    /\ configMutex' = FALSE
    /\ pc' = [pc EXCEPT ![p] = "idle"]
    /\ op' = [op EXCEPT ![p] = NoOp]
    /\ pre' = [pre EXCEPT ![p] = NoFile]
    /\ res' = [res EXCEPT ![p] = "none"]
    /\ UNCHANGED <<configFile, backupFile, todo, listed, calls>>

\* ListHosts by a reader that locks configMutex first.
ListHostsLocking(p) ==
    /\ pc[p] = "idle"
    /\ calls > 0
    /\ ~configMutex
    /\ configMutex' = TRUE
    /\ calls' = calls - 1
    /\ listed' = << [file |-> configFile,
                     err |-> configFile = NoFile,
                     hosts |-> IF configFile = NoFile THEN <<>>
                               ELSE ParseSSHConfigFile(configFile)] >>
    /\ UNCHANGED <<configFile, backupFile, pc, op, pre, res, todo>>

\* ParseSSHConfig called by a reader (the listing): no lock is taken.
ListHosts(p) ==
    /\ pc[p] = "idle"
    /\ calls > 0
    /\ calls' = calls - 1
    /\ listed' = << [file |-> configFile,
                     err |-> configFile = NoFile,
                     hosts |-> IF configFile = NoFile THEN <<>>
                               ELSE ParseSSHConfigFile(configFile)] >>
    /\ UNCHANGED <<configFile, backupFile, configMutex, pc, op, pre, res, todo>>

Next ==
    \E p \in Procs :
        \/ Call(p)
        \/ Lock(p)
        \/ Backup(p)
        \/ AddCheck(p)
        \/ AddWrite(p)
        \/ Rewrite(p)
        \/ Unlock(p)
        \/ ListHosts(p)

Idle ==
    /\ backupFile = NoFile
    /\ configMutex = FALSE
    /\ op = [p \in Procs |-> NoOp]
    /\ pre = [p \in Procs |-> NoFile]
    /\ res = [p \in Procs |-> "none"]
    /\ todo = [p \in Procs |-> <<>>]
    /\ listed = <<>>

\* Several callers, several calls, on a file the program wrote.
Init ==
    /\ configFile \in InitFiles
    /\ pc = [p \in Procs |-> "idle"]
    /\ calls = MaxCalls
    /\ Idle

Spec == Init /\ [][Next]_vars

\* One call by one caller on any file of at most MaxLines lines.
InitWide ==
    /\ configFile \in WideFiles
    /\ pc = [p \in Procs |-> IF p = 1 THEN "idle" ELSE "off"]
    /\ calls = 1
    /\ Idle

SpecWide == InitWide /\ [][Next]_vars

\* Several calls in a row by one caller on a short hand-edited file.
InitTrip ==
    /\ configFile \in TripFiles
    /\ pc = [p \in Procs |-> IF p = 1 THEN "idle" ELSE "off"]
    /\ calls = MaxCalls
    /\ Idle

SpecTrip == InitTrip /\ [][Next]_vars

\* -------------------------------------------------------------- properties
Distinct(seq) == \A i, j \in DOMAIN seq : seq[i] = seq[j] => i = j

Listing(file) == IF file = NoFile THEN <<>> ELSE ParseSSHConfigFile(file)

\* The caller p holds configMutex.
Holds(p) == pc[p] \in {"backup", "body", "write", "ret"}

\* p is about to return from a call of the given kind.
Returning(p, kind) == pc[p] = "ret" /\ op[p].kind = kind

\* Scheduling: a handler that can take its next step takes it (the steps
\* are synchronous file I/O and the deferred Unlock), and a caller blocked
\* in configMutex.Lock() gets the mutex if it is free again and again
\* (sync.Mutex hands the lock to a waiter that has waited long).  Callers
\* are not bound to make calls.
Fairness ==
    \A p \in Procs :
        /\ SF_vars(Lock(p))
        /\ WF_vars(Backup(p) \/ AddCheck(p) \/ AddWrite(p) \/ Rewrite(p) \/ Unlock(p))

\* Several callers, several calls, on no file or on a file with one host:
\* every result of every handler can come about.
InitLive ==
    /\ configFile \in LiveFiles
    /\ pc = [p \in Procs |-> "idle"]
    /\ calls = MaxCalls
    /\ Idle

SpecLive == InitLive /\ [][Next]_vars /\ Fairness

\* C1: starting from a file whose listed names are pairwise distinct,
\* whenever no write is in progress the names listHosts returns are
\* pairwise distinct, whatever calls were made and however they ended.
C1_NamesStayDistinct ==
    (\A p \in Procs : ~Holds(p)) => Distinct(Names(Listing(configFile)))

\* C2: an addHost whose entry's name is listed in the file it found never
\* writes to that file and does not succeed: it returns AlreadyExists, or
\* the I/O error of a step before the check.  (While such a call holds the
\* lock the file is the one it found, it never reaches the writing step,
\* and it returns one of these errors.)
C2_AddExistingRejected ==
    \A p \in Procs :
        (Holds(p) /\ op[p].kind = "add" /\ pre[p] # NoFile
            /\ (configFile # pre[p] \/ pc[p] \in {"write", "ret"})
            /\ HostExists(pre[p], op[p].host.Name))
        => /\ configFile = pre[p]
           /\ pc[p] = "ret"
           /\ res[p] \in {"AlreadyExists", "BackupError", "IOError"}

C2_Witness ==
    \E p \in Procs :
        /\ Returning(p, "add")
        /\ res[p] = "AlreadyExists"
        /\ HostExists(pre[p], op[p].host.Name)
        /\ backupFile = pre[p]

\* hosts without the entries of the given name.
Without(hosts, name) == SelectSeq(hosts, LAMBDA h : h.Name # name)

\* An entry as a listing shows it: an empty port reads back as "22".
AsListed(h) == [h EXCEPT !.Port = IF h.Port = <<>> THEN <<"22">> ELSE h.Port]

\* C3: deleteHost of a name that listHosts shows succeeds (unless an I/O
\* step failed), and the listing afterwards is the listing before without
\* that host, every other host unchanged and in the same order.
C3_DeleteListedHost ==
    \A p \in Procs :
        (Returning(p, "delete") /\ pre[p] # NoFile
            /\ HostExists(pre[p], op[p].name)
            /\ res[p] \notin {"BackupError", "IOError"})
        => /\ res[p] = "ok"
           /\ Listing(configFile) = Without(Listing(pre[p]), op[p].name)

\* C4: a successful updateHost of the second of three listed hosts leaves
\* the listing [A, B', C], with B' as given and A and C unchanged.
C4_UpdateMiddleHost ==
    \A p \in Procs :
        (Returning(p, "update") /\ res[p] = "ok"
            /\ Len(Listing(pre[p])) = 3
            /\ Distinct(Names(Listing(pre[p])))
            /\ Listing(pre[p])[2].Name = op[p].name)
        => Listing(configFile) =
              <<Listing(pre[p])[1], AsListed(op[p].host), Listing(pre[p])[3]>>

\* The spans [start, end) the scan of update and delete matches for a name:
\* from the tags comment or the Host line to the end of the block.
RECURSIVE LocateFrom(_, _, _)
LocateFrom(lines, i, hostName) ==
    IF i > Len(lines) THEN <<>>
    ELSE IF TaggedMatch(lines, i, hostName)
    THEN <<[start |-> i, end |-> SkipBlock(lines, i + 2)]>>
             \o LocateFrom(lines, SkipBlock(lines, i + 2), hostName)
    ELSE IF BareMatch(lines, i, hostName)
    THEN <<[start |-> i, end |-> SkipBlock(lines, i + 1)]>>
             \o LocateFrom(lines, SkipBlock(lines, i + 1), hostName)
    ELSE LocateFrom(lines, i + 1, hostName)

Locate(lines, hostName) == LocateFrom(lines, 1, hostName)

\* lines from index from on, with every span replaced by block.
RECURSIVE Splice(_, _, _, _)
Splice(lines, from, spans, block) ==
    IF spans = <<>> THEN SubSeq(lines, from, Len(lines))
    ELSE SubSeq(lines, from, spans[1].start - 1) \o block
             \o Splice(lines, spans[1].end, Tail(spans), block)

\* A span together with the one blank line directly after it, if any.
WithBlank(lines, span) ==
    [span EXCEPT !.end = IF span.end <= Len(lines) /\ TrimSpace(lines[span.end]) = <<>>
                         THEN span.end + 1 ELSE span.end]

WithBlanks(lines, spans) == [k \in DOMAIN spans |-> WithBlank(lines, spans[k])]

\* The file a successful update or delete by p leaves if it changes nothing
\* but the given spans of the file it found.
OnlySpansChanged(p, spans) ==
    configFile = JoinLines(Splice(pre[p], 1, spans,
                                  IF op[p].kind = "update" THEN UpdateBlock(op[p].host)
                                  ELSE <<>>))

\* C5 as stated: a successful updateHost or deleteHost leaves every line
\* outside the located span in the file, unchanged and in order.
C5_OnlySpanChanged ==
    \A p \in Procs :
        (pc[p] = "ret" /\ op[p].kind \in {"update", "delete"} /\ res[p] = "ok")
        => OnlySpansChanged(p, Locate(pre[p], op[p].name))

\* C5 as amended: a successful updateHost leaves every line outside the
\* located spans in the file, unchanged and in order; a successful
\* deleteHost does too, except for the one blank line directly after each
\* span, which it removes with the span.
C5_OnlySpanAndBlankChanged ==
    \A p \in Procs :
        (pc[p] = "ret" /\ op[p].kind \in {"update", "delete"} /\ res[p] = "ok")
        => OnlySpansChanged(p, IF op[p].kind = "update"
                               THEN Locate(pre[p], op[p].name)
                               ELSE WithBlanks(pre[p], Locate(pre[p], op[p].name)))

C5_Witness ==
    \E p \in Procs :
        /\ Returning(p, "delete")
        /\ res[p] = "ok"
        /\ Len(Locate(pre[p], op[p].name)) = 1
        /\ Locate(pre[p], op[p].name)[1].start > 1
        /\ WithBlanks(pre[p], Locate(pre[p], op[p].name)) # Locate(pre[p], op[p].name)
        /\ pre[p][1] # TrimSpace(pre[p][1])
        /\ configFile[1] = pre[p][1]

\* The call of p ran backupConfig: update and delete always do, add does
\* when the file exists.
ReachedBackup(p) == op[p].kind \in {"update", "delete"} \/ pre[p] # NoFile

\* C6 as stated: when a call that reached the backup step returns, the
\* backup file exists and holds the content the config file had when the
\* call began.
C6_BackupHoldsPre ==
    \A p \in Procs :
        (pc[p] = "ret" /\ ReachedBackup(p))
        => (backupFile # NoFile /\ backupFile = pre[p])

\* C6 as amended: once backupConfig has returned without error, and until
\* the call returns (with success or any error), the backup file holds the
\* content the config file had when the call began, whatever an earlier
\* call left there.
C6_BackupHoldsPreAfterBackup ==
    \A p \in Procs :
        (pc[p] \in {"body", "write", "ret"} /\ pre[p] # NoFile
            /\ res[p] # "BackupError")
        => backupFile = pre[p]

C6_Witness ==
    \E p \in Procs :
        /\ pc[p] = "ret"
        /\ res[p] = "IOError"
        /\ configFile # pre[p]
        /\ backupFile = pre[p]
        /\ calls < MaxCalls - 1

\* C7: a call whose backup failed returns that error with the config file
\* as it found it and nothing queued for writing, and a handler is past
\* the backup step only with a backup of the file it found (or, for add,
\* with no file to back up).
C7_FailedBackupAborts ==
    \A p \in Procs :
        /\ (pc[p] = "ret" /\ res[p] = "BackupError")
              => (configFile = pre[p] /\ todo[p] = <<>>)
        /\ (pc[p] \in {"body", "write"} /\ pre[p] # NoFile)
              => (backupFile = pre[p] /\ res[p] = "none")

C7_Witness ==
    \E p \in Procs :
        /\ pc[p] = "ret"
        /\ res[p] = "BackupError"
        /\ pre[p] # NoFile
        /\ backupFile # pre[p]
        /\ configFile = pre[p]

\* C8: at most one caller is between acquiring and releasing configMutex,
\* and the mutex is locked exactly while one is.
C8_MutualExclusion ==
    /\ \A p, q \in Procs : (Holds(p) /\ Holds(q)) => p = q
    /\ configMutex <=> \E p \in Procs : Holds(p)

C8_Witness ==
    \E p, q \in Procs :
        /\ p # q
        /\ pc[p] = "write"
        /\ configFile # pre[p]
        /\ pc[q] = "lock"

\* The line is a Port directive.
IsPortLine(raw) ==
    LET parts == Fields(TrimSpace(raw))
    IN  Len(parts) >= 1 /\ ToLower(parts[1]) = <<"port">>

\* C9: a successful addHost of an entry whose port is empty or "22" leaves
\* the file it found followed by lines none of which is a Port directive,
\* and the listing of the result shows the entry's name with port "22".
C9_DefaultPortOmitted ==
    \A p \in Procs :
        (Returning(p, "add") /\ res[p] = "ok" /\ op[p].host.Port \in {<<>>, <<"22">>})
        => LET hosts == Listing(configFile)
           IN  /\ Len(configFile) > Len(pre[p])
               /\ SubSeq(configFile, 1, Len(pre[p])) = pre[p]
               /\ \A i \in (Len(pre[p]) + 1)..Len(configFile) :
                      ~IsPortLine(configFile[i])
               /\ \E i \in DOMAIN hosts : hosts[i].Name = op[p].host.Name
               /\ \A i \in DOMAIN hosts :
                      hosts[i].Name = op[p].host.Name => hosts[i].Port = <<"22">>

C9_Witness ==
    \E p \in Procs :
        /\ Returning(p, "add")
        /\ res[p] = "ok"
        /\ op[p].host.Port = <<"22">>
        /\ \E i \in DOMAIN pre[p] : IsPortLine(pre[p][i])
        /\ \E i \in DOMAIN Listing(configFile) :
               /\ Listing(configFile)[i].Name = op[p].host.Name
               /\ Listing(configFile)[i].Port = <<"22">>

\* The line declares a host: not a comment, at least two fields, the first
\* of them "host" in any case.
IsHostDecl(raw) ==
    LET line == TrimSpace(raw)
        parts == Fields(line)
    IN  /\ ~HasPrefix(line, <<"#">>)
        /\ Len(parts) >= 2
        /\ ToLower(parts[1]) = <<"host">>

\* The indices of the lines that declare a host, in order.
HostDecls(lines) ==
    SelectSeq([i \in 1..Len(lines) |-> i], LAMBDA i : IsHostDecl(lines[i]))

\* The labels of the "# Tags:" lines strictly between lines lo and hi.
RECURSIVE TagsBetween(_, _, _)
TagsBetween(lines, lo, hi) ==
    IF lo + 1 >= hi THEN <<>>
    ELSE (IF HasPrefix(TrimSpace(lines[lo + 1]), TagsPrefix)
          THEN ParseTags(TrimSpace(lines[lo + 1])) ELSE <<>>)
             \o TagsBetween(lines, lo + 1, hi)

\* C10: in a listing, the k-th host is the k-th Host declaration and its
\* tags are exactly the labels of the "# Tags:" lines after the previous
\* Host declaration (or the start of the file) and before its own, in
\* order, whatever blank lines and comments stand between; so the labels
\* of a "# Tags:" line go to the first host declared after it and to no
\* other, and a host with no such line before it has no tags.
C10_TagsGoToNextHost ==
    listed # <<>> /\ ~listed[1].err
    => LET lines == listed[1].file
           hosts == listed[1].hosts
           decls == HostDecls(lines)
       IN  /\ Len(hosts) = Len(decls)
           /\ \A k \in DOMAIN hosts :
                  hosts[k].Tags =
                      TagsBetween(lines, IF k = 1 THEN 0 ELSE decls[k - 1], decls[k])

C10_Witness ==
    /\ listed # <<>>
    /\ Len(listed[1].file) = 3
    /\ HasPrefix(TrimSpace(listed[1].file[1]), TagsPrefix)
    /\ listed[1].file[2] = <<"#", " ", "x">>
    /\ Len(listed[1].hosts) = 1
    /\ listed[1].hosts[1].Tags = << <<"t1">>, <<"t2">> >>

\* C11: an updateHost or deleteHost of a name for which the scan locates no
\* block never writes the config file, and it returns NotFound unless the
\* backup or the read failed first.
C11_NotLocatedIsNotFound ==
    \A p \in Procs :
        (pc[p] = "ret" /\ op[p].kind \in {"update", "delete"} /\ pre[p] # NoFile
            /\ Locate(pre[p], op[p].name) = <<>>)
        => /\ configFile = pre[p]
           /\ res[p] \in {"NotFound", "BackupError", "IOError"}

C11_Witness ==
    \E p \in Procs :
        /\ Returning(p, "update")
        /\ res[p] = "NotFound"
        /\ Locate(pre[p], op[p].name) = <<>>
        /\ Len(Listing(pre[p])) > 0
        /\ backupFile = pre[p]
        /\ configFile = pre[p]

\* One directive line of a block, or none when the value is empty.
Directive(key, value) ==
    IF value # <<>> THEN <<Indent \o <<key, " ">> \o value>> ELSE <<>>

\* The lines of the block addHost is to write for an entry.
AddedLines(h) ==
    (IF h.Tags # <<>> THEN <<TagsLine(h.Tags)>> ELSE <<>>)
    \o <<HostPrefix \o h.Name>>
    \o <<Indent \o <<"HostName", " ">> \o h.Hostname>>
    \o Directive("User", h.User)
    \o (IF h.Port # <<"22">> THEN Directive("Port", h.Port) ELSE <<>>)
    \o Directive("IdentityFile", h.Identity)
    \o Directive("ProxyJump", h.ProxyJump)

\* C12: a successful addHost leaves the content it found, byte for byte,
\* followed by a newline and then by the lines of the entry's block, each
\* ended by a newline: the tags line if the entry has tags, the Host line,
\* the HostName line, and the User, Port, IdentityFile and ProxyJump lines
\* of the non-empty fields (Port only when it is not "22"), in that order.
C12_AddOnlyAppends ==
    \A p \in Procs :
        (Returning(p, "add") /\ res[p] = "ok")
        => configFile = pre[p] \o AddedLines(op[p].host) \o << <<>> >>

C12_Witness ==
    \E p \in Procs :
        /\ Returning(p, "add")
        /\ res[p] = "ok"
        /\ op[p].host.Tags # <<>>
        /\ op[p].host.ProxyJump # <<>>
        /\ Len(pre[p]) = MaxLines
        /\ pre[p][Len(pre[p])] # <<>>
        /\ Len(configFile) > Len(pre[p]) + 4

\* The lines of the block updateHost is to write: as for addHost, without
\* the ProxyJump line.
UpdatedLines(h) == AddedLines([h EXCEPT !.ProxyJump = <<>>])

\* block stands in file from line i on.
BlockAt(file, i, block) ==
    /\ i + Len(block) - 1 <= Len(file)
    /\ SubSeq(file, i, i + Len(block) - 1) = block

\* Where the pieces written in place of the spans start in the rewritten
\* file, each piece having n lines: from is the next line of the old file,
\* out the number of lines of the new file before it.
RECURSIVE PiecesAt(_, _, _, _)
PiecesAt(from, spans, n, out) ==
    IF spans = <<>> THEN {}
    ELSE LET at == out + spans[1].start - from
         IN  {at + 1} \cup PiecesAt(spans[1].end, Tail(spans), n, at + n)

\* Where the blocks written by the successful addHost or updateHost of p
\* start in the file it leaves: after the content found for addHost, at the
\* end of each piece that stands for a located span for updateHost.
NewBlocksAt(p) ==
    IF op[p].kind = "add" THEN {Len(pre[p]) + 1}
    ELSE LET spans == Locate(pre[p], op[p].name)
             kept == Len(Splice(pre[p], 1, spans, <<>>))
             n == (Len(configFile) - kept) \div Len(spans)
         IN  {at + n - Len(UpdatedLines(op[p].host)) :
                  at \in PiecesAt(1, spans, n, 0)}

\* block stands in file from line i on, directly after a blank line.
AfterBlank(file, i, block) ==
    /\ BlockAt(file, i, block)
    /\ i > 1
    /\ TrimSpace(file[i - 1]) = <<>>

\* C13: after a successful addHost or updateHost the first line of the
\* block just written (its tags line, or else its Host line) comes directly
\* after a blank line, whatever the content before, with or without a
\* final newline.
C13_BlockAfterBlank ==
    \A p \in Procs :
        (pc[p] = "ret" /\ op[p].kind \in {"add", "update"} /\ res[p] = "ok")
        => \A i \in NewBlocksAt(p) :
               AfterBlank(configFile, i, IF op[p].kind = "add"
                                         THEN AddedLines(op[p].host)
                                         ELSE UpdatedLines(op[p].host))

\* The lines deleteHost is to remove for the Host line at index i: the tags
\* line directly before it, the block up to the first blank or Host line,
\* and the one blank line directly after the block.
BlockLines(lines, i) ==
    LET end == SkipBlock(lines, i + 1)
    IN  (IF i > 1 /\ HasPrefix(TrimSpace(lines[i - 1]), TagsPrefix)
         THEN {i - 1} ELSE {})
        \cup i..(end - 1)
        \cup (IF end <= Len(lines) /\ TrimSpace(lines[end]) = <<>>
              THEN {end} ELSE {})

\* The lines deleteHost is to remove for a name: those of every Host line
\* whose second field is the name.
ToRemove(lines, hostName) ==
    UNION {BlockLines(lines, i) : i \in {j \in 1..Len(lines) : BareMatch(lines, j, hostName)}}

\* lines without those whose index is in gone.
Remaining(lines, gone) ==
    LET keep == SelectSeq([i \in 1..Len(lines) |-> i], LAMBDA i : i \notin gone)
    IN  [k \in 1..Len(keep) |-> lines[keep[k]]]

\* C14: a successful deleteHost leaves the file it found without the
\* host's lines and with every other line: gone are the tags line directly
\* before the host's Host line, the Host line, the lines after it up to the
\* first blank or Host line, and one blank line directly after those.
C14_DeleteRemovesBlock ==
    \A p \in Procs :
        (Returning(p, "delete") /\ res[p] = "ok")
        => configFile = JoinLines(Remaining(pre[p], ToRemove(pre[p], op[p].name)))

\* The line is a ProxyJump directive.
IsProxyJumpLine(raw) ==
    LET parts == Fields(TrimSpace(raw))
    IN  Len(parts) >= 1 /\ ToLower(parts[1]) = <<"proxyjump">>

\* The ProxyJump directives of a file, in order.
ProxyJumpLines(file) == SelectSeq(file, IsProxyJumpLine)

\* C15: after a successful updateHost with an entry whose proxyJump is not
\* empty, the only ProxyJump directives of the file are those of the lines
\* outside the located spans, so the blocks written hold none; after a
\* successful addHost with such an entry the file has the directives it
\* had and, after them, the entry's ProxyJump line.
C15_UpdateOmitsProxyJump ==
    \A p \in Procs :
        (pc[p] = "ret" /\ res[p] = "ok" /\ op[p].host.ProxyJump # <<>>)
        => IF op[p].kind = "update"
           THEN ProxyJumpLines(configFile) =
                    ProxyJumpLines(Splice(pre[p], 1, Locate(pre[p], op[p].name), <<>>))
           ELSE ProxyJumpLines(configFile) =
                    ProxyJumpLines(pre[p])
                        \o <<Indent \o <<"ProxyJump", " ">> \o op[p].host.ProxyJump>>

C15_Witness ==
    \E p \in Procs :
        /\ Returning(p, "update")
        /\ res[p] = "ok"
        /\ op[p].host.ProxyJump # <<>>
        /\ \E k, l \in DOMAIN Locate(pre[p], op[p].name) :
               /\ TaggedMatch(pre[p], Locate(pre[p], op[p].name)[k].start, op[p].name)
               /\ BareMatch(pre[p], Locate(pre[p], op[p].name)[l].start, op[p].name)
        /\ ProxyJumpLines(configFile) = <<>>
        /\ Len(Listing(configFile)) >= 2

\* The line is a directive with the given key (in lower case): not a
\* comment, at least two fields, the first of them the key in any case.
IsDirective(raw, key) ==
    LET line == TrimSpace(raw)
        parts == Fields(line)
    IN  /\ ~HasPrefix(line, <<"#">>)
        /\ Len(parts) >= 2
        /\ ToLower(parts[1]) = key

\* The value of a directive line: its fields after the first, joined by
\* single spaces.
ValueOf(raw) == Join(Tail(Fields(TrimSpace(raw))), <<" ">>)

\* The value of the last directive with the key strictly between lines lo
\* and hi, or default when there is none.
LastValue(lines, lo, hi, key, default) ==
    LET at == {i \in (lo + 1)..(hi - 1) : IsDirective(lines[i], key)}
    IN  IF at = {} THEN default ELSE ValueOf(lines[Max(at)])

\* C16: a listing has one entry for each Host declaration of the file, in
\* the order of the declarations and with the last one included; the k-th
\* entry has the name given on the k-th declaration and, for each field,
\* the value of the last directive between that declaration and the next
\* one (or the end of the file), so a directive before the first
\* declaration goes to no entry.
C16_OneEntryPerHostLine ==
    listed # <<>> /\ ~listed[1].err
    => LET lines == listed[1].file
           hosts == listed[1].hosts
           decls == HostDecls(lines)
           next(k) == IF k < Len(decls) THEN decls[k + 1] ELSE Len(lines) + 1
           field(k, key, default) == LastValue(lines, decls[k], next(k), key, default)
       IN  /\ Len(hosts) = Len(decls)
           /\ \A k \in DOMAIN hosts :
                  /\ hosts[k].Name = ValueOf(lines[decls[k]])
                  /\ hosts[k].Hostname = field(k, <<"hostname">>, <<>>)
                  /\ hosts[k].User = field(k, <<"user">>, <<>>)
                  /\ hosts[k].Port = field(k, <<"port">>, <<"22">>)
                  /\ hosts[k].Identity = field(k, <<"identityfile">>, <<>>)
                  /\ hosts[k].ProxyJump = field(k, <<"proxyjump">>, <<>>)

C16_Witness ==
    /\ listed # <<>>
    /\ Len(listed[1].file) = 3
    /\ IsPortLine(listed[1].file[1])
    /\ listed[1].file[2] = <<"host", "\t", "a">>
    /\ IsHostDecl(listed[1].file[3])
    /\ Names(listed[1].hosts) = << <<"a">>, <<"b">> >>
    /\ listed[1].hosts[1].Port = <<"22">>

\* C17 as stated: readers take no lock, and the listing a reader gets of the file as
\* it stands while an addHost is writing is the listing of the file the
\* addHost found or of the file it is to leave, never of a block written
\* in part.
C17_ReadsSeePreOrPost ==
    \A p \in Procs :
        (pc[p] = "write" /\ listed # <<>> /\ listed[1].file = configFile)
        => listed[1].hosts \in
               { Listing(pre[p]),
                 Listing(pre[p] \o AddedLines(op[p].host) \o << <<>> >>) }

\* The content after the strings of chunks are written, in order, at the
\* end of lines.
RECURSIVE AppendAll(_, _)
AppendAll(lines, chunks) ==
    IF chunks = <<>> THEN lines
    ELSE AppendAll(AppendStr(lines, Head(chunks)), Tail(chunks))

\* C17 as amended: readers take no lock (a listing changes neither the
\* mutex nor where a caller stands), and the listing a reader gets of the
\* file as it stands while an addHost is writing is the listing of the file
\* the addHost found followed by the first k of the strings it writes, for
\* some k from none to all: the file before, the file after, or a block
\* written in part.
C17_ReadsSeeWrittenPrefix ==
    /\ [](\A p \in Procs :
              (pc[p] = "write" /\ listed # <<>> /\ listed[1].file = configFile)
              => \E k \in 0..Len(AddChunks(op[p].host)) :
                     /\ listed[1].file =
                            AppendAll(pre[p], SubSeq(AddChunks(op[p].host), 1, k))
                     /\ listed[1].hosts = Listing(listed[1].file))
    /\ [][listed' # listed => (configMutex' = configMutex /\ pc' = pc)]_vars

C17_Witness ==
    \E p \in Procs :
        /\ pc[p] = "write"
        /\ configMutex
        /\ listed # <<>>
        /\ listed[1].file = configFile
        /\ Len(listed[1].hosts) = Len(Listing(pre[p])) + 1
        /\ listed[1].hosts[Len(listed[1].hosts)].Name = op[p].host.Name
        /\ listed[1].hosts[Len(listed[1].hosts)].Hostname = <<>>
        /\ op[p].host.Hostname # <<>>

\* C18: under fair scheduling every call of addHost, updateHost or
\* deleteHost, whether it waits for the mutex or holds it, is over in the
\* end whatever its result, with the caller back and the mutex not left
\* locked behind it (it is locked then only if another caller holds it).
C18_CallsReturn ==
    \A p \in Procs :
        (pc[p] = "lock" \/ Holds(p))
            ~> (pc[p] = "idle" /\ ((\A q \in Procs : ~Holds(q)) => ~configMutex))

C18_Witness ==
    \E p, q \in Procs :
        /\ pc[p] = "lock"
        /\ pc[q] = "ret"
        /\ res[q] \in {"AlreadyExists", "NotFound"}
        /\ configMutex

\* C19: on every file, an updateHost or deleteHost that got as far as its
\* scan locates a block for a name exactly when hostExists finds the name
\* in the listing of that file: it returns NotFound when the name is not
\* listed and succeeds when it is.
C19_ParserLocatorAgree ==
    \A p \in Procs :
        (pc[p] = "ret" /\ op[p].kind \in {"update", "delete"} /\ pre[p] # NoFile
            /\ res[p] \in {"ok", "NotFound"})
        => (HostExists(pre[p], op[p].name) <=> res[p] = "ok")

\* The file is one that a successful addHost of entry e leaves: a file in
\* which the name is not listed, followed by the block of e and the empty
\* last line.
AddedTo(file, e) ==
    LET tail == AddedLines(e) \o << <<>> >>
        n == Len(file) - Len(tail)
    IN  /\ n >= 1
        /\ SubSeq(file, n + 1, Len(file)) = tail
        /\ ~HostExists(SubSeq(file, 1, n), e.Name)

\* The file that addHost found.
BeforeAdd(file, e) == SubSeq(file, 1, Len(file) - Len(AddedLines(e)) - 1)

\* C20: a successful deleteHost of the name of entry e, on the file that a
\* successful addHost of e left, gives back the file that addHost found,
\* byte for byte, with or without tags and a final newline.
C20_AddDeleteRoundTrip ==
    \A p \in Procs :
        (Returning(p, "delete") /\ res[p] = "ok")
        => \A e \in Entries :
               (e.Name = op[p].name /\ AddedTo(pre[p], e))
               => configFile = BeforeAdd(pre[p], e)

\* C21: an addHost that finds no config file makes no backup, never gets
\* to the os.OpenFile that would create the file (nothing is queued for
\* writing), returns the I/O error of the existence check, and leaves
\* neither a config file nor a backup file.
C21_AddOnMissingFileFails ==
    \A p \in Procs :
        (Holds(p) /\ op[p].kind = "add" /\ pre[p] = NoFile)
        => /\ configFile = NoFile
           /\ backupFile = NoFile
           /\ pc[p] # "write"
           /\ todo[p] = <<>>
           /\ pc[p] = "ret" => res[p] = "IOError"

C21_Witness ==
    \E p \in Procs :
        /\ Returning(p, "add")
        /\ pre[p] = NoFile
        /\ res[p] = "IOError"
        /\ configFile = NoFile
        /\ backupFile = NoFile
        /\ calls < MaxCalls - 1

====
